---- MODULE Spec2Model ----
(***************************************************************************)
(* State-machine model of the Selector widget of pygame-menu               *)
(* (src/pygame_menu/widgets/widget/selector.py).                           *)
(*                                                                         *)
(* The widget is single threaded.  A host (the menu) constructs it, then   *)
(* calls one operation at a time.  `pc` is the host's position:            *)
(*   "new"      no selector constructed yet                                *)
(*   "failed"   the constructor raised; no selector exists                 *)
(*   "idle"     a selector exists, no call in progress                     *)
(*   "update"   inside the event loop of update(events)                    *)
(*   "returned" a call has returned or raised; `call`, `pre`, `arg` and    *)
(*              `log` describe it until the host resumes (Resume).         *)
(* Indices are 0-based as in the source; a Python list l is the sequence   *)
(* l with l[i] written At(l, i).                                           *)
(***************************************************************************)
EXTENDS Integers, Sequences, FiniteSets, TLC

(* ------------------------------ bounds -------------------------------- *)

\* Longest element list handed to the constructor or to update_elements.
MaxLen == 3
\* Most events in one batch handed to update(events).
MaxBatch == 2

(* ------------------------------ values -------------------------------- *)

\* The Python str objects used as labels; every other field ("1", "2") is
\* an opaque payload object that is not a str.
Str == {"a", "b"}

\* Rows that pass check_selector_elements: two rows sharing a label, one
\* row without payload.
ValidRows == {<<"a", "1">>, <<"a", "2">>, <<"b">>}
\* An empty row, and a row whose first field is not text.
BadRows == {<<>>, <<"1">>}

ListsUpTo(R, n) == UNION {[1..k -> R] : k \in 0..n}
\* Lists that fail check_selector_elements: the empty list, and a bad row
\* alone, before and after a valid row.
InvalidLists ==
    {<<>>} \cup {<<b>> : b \in BadRows}
        \cup {<<v, b>> : v \in ValidRows, b \in BadRows}
        \cup {<<b, v>> : v \in ValidRows, b \in BadRows}
\* Every valid list of 1..MaxLen rows, and the invalid lists.
AllLists == (ListsUpTo(ValidRows, MaxLen) \ {<<>>}) \cup InvalidLists
\* The lists used where the input side is explored in depth.
FewLists == {<<<<"a", "1">>, <<"a", "2">>, <<"b">>>>, <<<<"b">>, <<"a", "1">>>>, <<<<"a", "2">>>>, <<>>}
\* default= arguments of the constructor: one below and one above the range.
Defaults == (0 - 1)..MaxLen

\* set_value(item): a str or an int, tagged by its Python type.
StrItem(s) == [t |-> "str", s |-> s, n |-> 0]
IntItem(n) == [t |-> "int", s |-> "", n |-> n]
Items == {StrItem(s) : s \in Str \cup {"zz"}} \cup {IntItem(n) : n \in (0 - 1)..MaxLen}

At(l, i) == l[i + 1]
InRange(i, l) == 0 <= i /\ i < Len(l)

(* ------------------- pygame_menu.controls constants ------------------- *)

KEY_LEFT == "K_LEFT"
KEY_RIGHT == "K_RIGHT"
KEY_APPLY == "K_RETURN"
JOY_LEFT == <<0 - 1, 0>>
JOY_RIGHT == <<1, 0>>
JOY_CENTERED == <<0, 0>>
JOY_AXIS_X == 0
JOY_AXIS_Y == 1
\* The deadzone threshold 0.5; axis values are modelled in tenths.
JOY_DEADZONE == 5
JOY_BUTTON_SELECT == 0

(* ------------------------------ events -------------------------------- *)

\* A pygame event.  Attributes an event type does not carry hold a dummy
\* that the code never reads, except `pos`, which a FINGERUP event lacks
\* (pos = <<>>) although the code reads it.  pygame names the value of a hat
\* event and of an axis event alike `value`; they are `hat` and `value` here.
\* `valid` is the answer of check_key_pressed_valid(event).  A touch
\* coordinate x, y is normalized to [0,1]: it is given in quarters.
Event(type, key, valid, hat, axis, value, button, pos, x, y) ==
    [type |-> type, key |-> key, valid |-> valid, hat |-> hat, axis |-> axis,
     value |-> value, button |-> button, pos |-> pos, x |-> x, y |-> y]

KeyDown(key, valid) == Event("KEYDOWN", key, valid, JOY_CENTERED, 0, 0, 0, <<>>, 0, 0)
JoyHat(hat) == Event("JOYHATMOTION", "", TRUE, hat, 0, 0, 0, <<>>, 0, 0)
JoyAxis(axis, value) == Event("JOYAXISMOTION", "", TRUE, JOY_CENTERED, axis, value, 0, <<>>, 0, 0)
JoyButton(button) == Event("JOYBUTTONDOWN", "", TRUE, JOY_CENTERED, 0, 0, button, <<>>, 0, 0)
MouseUp(button, pos) == Event("MOUSEBUTTONUP", "", TRUE, JOY_CENTERED, 0, 0, button, pos, 0, 0)
FingerUp(x, y) == Event("FINGERUP", "", TRUE, JOY_CENTERED, 0, 0, 0, <<>>, x, y)
KeyUp(key) == Event("KEYUP", key, TRUE, JOY_CENTERED, 0, 0, 0, <<>>, 0, 0)
NoEvent == Event("", "", TRUE, JOY_CENTERED, 0, 0, 0, <<>>, 0, 0)

KeyEvents ==
    {KeyDown(k, TRUE) : k \in {KEY_LEFT, KEY_RIGHT, KEY_APPLY, "K_a"}}
        \cup {KeyDown(k, FALSE) : k \in {KEY_LEFT, KEY_APPLY}}
        \cup {KeyUp(KEY_LEFT)}
JoyEvents ==
    {JoyHat(h) : h \in {JOY_LEFT, JOY_RIGHT, JOY_CENTERED}}
        \cup {JoyAxis(JOY_AXIS_X, v) : v \in {0 - 10, 0 - 5, 0 - 3, 0, 3, 5, 10}}
        \cup {JoyAxis(JOY_AXIS_Y, v) : v \in {0 - 10, 10}}
        \cup {JoyButton(b) : b \in {JOY_BUTTON_SELECT, 1}}
MouseEvents ==
    {MouseUp(1, <<px, 1>>) : px \in {1, 2, 3, 6, 7, 9, 10}}
        \cup {MouseUp(1, <<3, 5>>), MouseUp(3, <<7, 1>>), MouseUp(2, <<3, 1>>),
              MouseUp(4, <<3, 1>>), MouseUp(5, <<7, 1>>)}
\* The last one is a synthetic touch release that also carries a `pos`.
TouchEvents ==
    {FingerUp(1, 1), FingerUp(3, 1),
     Event("FINGERUP", "", TRUE, JOY_CENTERED, 0, 0, 0, <<9, 1>>, 1, 1)}

\* Every event of the model.
AllEvents == KeyEvents \cup JoyEvents \cup MouseEvents \cup TouchEvents
\* The events used where the element lists are explored in depth.
FewEvents ==
    {KeyDown(KEY_LEFT, TRUE), KeyDown(KEY_RIGHT, TRUE), KeyDown(KEY_APPLY, TRUE),
     KeyDown(KEY_LEFT, FALSE), JoyAxis(JOY_AXIS_X, 0), JoyButton(1),
     MouseUp(1, <<3, 1>>), FingerUp(1, 1)}

(* ------------------------ widget configuration ------------------------ *)

\* What the menu sets on a widget it holds: the input sources, the menu
\* (its window size, or <<>> for None), the width of the rendered title and
\* the widget's real rectangle <<left, top, width, height>>.
Config(k, j, m, t, menu, title, rect) ==
    [keyboard |-> k, joystick |-> j, mouse |-> m, touchscreen |-> t,
     menu |-> menu, title_size |-> title, rect |-> rect]

\* The rectangle spans x = 0..10: a scaled copy of the spec's example.
Rect10 == <<0, 0, 10, 2>>
Window == <<20, 4>>
Configs ==
    {Config(k, j, m, t, Window, 2, Rect10) : k \in BOOLEAN, j \in BOOLEAN, m \in BOOLEAN, t \in BOOLEAN}
        \cup {Config(TRUE, TRUE, TRUE, TRUE, <<>>, 2, Rect10),
              Config(TRUE, TRUE, TRUE, TRUE, Window, 0, Rect10),
              Config(TRUE, TRUE, TRUE, TRUE, Window, 10, Rect10)}

(* ----------------------------- variables ------------------------------ *)

VARIABLES
    _elements,            \* Selector._elements
    _index,               \* Selector._index
    _default_value,       \* Widget._default_value
    readonly,             \* Widget.readonly
    _keyboard_enabled,    \* Widget._keyboard_enabled
    _joystick_enabled,    \* Widget._joystick_enabled
    _mouse_enabled,       \* Widget._mouse_enabled
    _touchscreen_enabled, \* Widget._touchscreen_enabled
    _menu,                \* Widget._menu: its window size, <<>> for None
    _title_size,          \* Selector._title_size
    _rect,                \* the widget's real rectangle
    pc,                   \* the host's position (see above)
    updated,              \* local `updated` of update()
    nev,                  \* events of the batch consumed so far
    step,                 \* last event consumed in update() and the state it met
    log,                  \* callbacks and sound cues of the call, in order
    call,                 \* [op, raised, ret] of the call
    pre,                  \* the selector state when the call began
    arg,                  \* the call's argument
    run,                  \* ghost: the current run of equal moves
    _style,               \* Selector._style
    _selected,            \* Widget._selected
    _visible,             \* Widget._visible
    _last_render_hash,    \* Widget._last_render_hash
    _surface              \* Widget._surface

widget == <<_elements, _index, _default_value>>
flags == <<_keyboard_enabled, _joystick_enabled, _mouse_enabled, _touchscreen_enabled>>
layout == <<_menu, _title_size, _rect>>
loop == <<updated, nev, step>>
view == <<_style, _selected, _visible, _last_render_hash, _surface>>
vars == <<_elements, _index, _default_value, readonly, _keyboard_enabled,
          _joystick_enabled, _mouse_enabled, _touchscreen_enabled, _menu,
          _title_size, _rect, pc, updated, nev, step, log, call, pre, arg, run,
          _style, _selected, _visible, _last_render_hash, _surface>>

Snapshot == [elements |-> _elements, index |-> _index, default_value |-> _default_value]
NoStep == [event |-> NoEvent, index |-> 0, loglen |-> 0, acted |-> FALSE]
NoRun == [dir |-> "", start |-> 0, n |-> 0, from |-> 0, pdir |-> "", pfrom |-> 0]
Call(op, raised, ret) == [op |-> op, raised |-> raised, ret |-> ret]
NoArg == <<>>

(* ------------------------------ helpers ------------------------------- *)

\* isinstance(x, (str, bytes))
IsText(x) == x \in Str

\* check_selector_elements: TRUE when every assertion passes.
check_selector_elements(elements) ==
    /\ Len(elements) > 0
    /\ \A k \in 1..Len(elements) :
        /\ Len(elements[k]) >= 1
        /\ IsText(elements[k][1])

\* list.index(x): the first position of a row equal to x; -1 is ValueError.
ListIndex(l, x) ==
    IF \E k \in 1..Len(l) : l[k] = x
    THEN (CHOOSE k \in 1..Len(l) : l[k] = x /\ \A j \in 1..(k - 1) : l[j] # x) - 1
    ELSE 0 - 1

\* element[1:], the fields handed to the callbacks.
Payload(row) == SubSeq(row, 2, Len(row))

\* Entries of `log`: a callback or a sound cue, with the index it could read.
Effect(k, p, i) == [k |-> k, p |-> p, i |-> i]
change(p, i) == Effect("change", p, i)
apply(p, i) == Effect("apply", p, i)
play_key_add(i) == Effect("sound", <<"key_add">>, i)
play_open_menu(i) == Effect("sound", <<"open_menu">>, i)
apply_update_callbacks(i) == Effect("hook", <<>>, i)

\* What one step leaves: the new index, what it logged, whether it counts as
\* an update, and the exception it raised ("" for none).
Out(i, lg, acted, raised) == [index |-> i, log |-> lg, acted |-> acted, raised |-> raised]

\* Mutant of _left: stops at the first row instead of wrapping around.
_left_clamped(ro, elements, i) ==
    IF ro THEN Out(i, <<>>, FALSE, "")
    ELSE LET j == IF i = 0 THEN 0 ELSE i - 1
         IN Out(j, <<change(Payload(At(elements, j)), j), play_key_add(j)>>, FALSE, "")

\* Selector._left as a function of the fields it reads.
_left(ro, elements, i) ==
    IF ro THEN Out(i, <<>>, FALSE, "")
    ELSE LET j == (i - 1) % Len(elements)
         IN Out(j, <<change(Payload(At(elements, j)), j), play_key_add(j)>>, FALSE, "")

\* Mutant of _right: the change callback runs before the index moves.
_right_callback_first(ro, elements, i) ==
    IF ro THEN Out(i, <<>>, FALSE, "")
    ELSE LET j == (i + 1) % Len(elements)
         IN Out(j, <<change(Payload(At(elements, i)), i), play_key_add(j)>>, FALSE, "")

\* Mutant of _right: stops at the last row instead of wrapping around.
_right_clamped(ro, elements, i) ==
    IF ro THEN Out(i, <<>>, FALSE, "")
    ELSE LET j == IF i + 1 >= Len(elements) THEN Len(elements) - 1 ELSE i + 1
         IN Out(j, <<change(Payload(At(elements, j)), j), play_key_add(j)>>, FALSE, "")

\* Selector._right as a function of the fields it reads.
_right(ro, elements, i) ==
    IF ro THEN Out(i, <<>>, FALSE, "")
    ELSE LET j == (i + 1) % Len(elements)
         IN Out(j, <<change(Payload(At(elements, j)), j), play_key_add(j)>>, FALSE, "")

\* k calls of _right in a row, as the constructor makes them.
RECURSIVE RightTimes(_, _, _, _)
RightTimes(elements, i, lg, k) ==
    IF k = 0 THEN Out(i, lg, FALSE, "")
    ELSE LET o == _right(FALSE, elements, i)
         IN RightTimes(elements, o.index, lg \o o.log, k - 1)

\* Mutant of __init__: stores the default index without moving to it.
__init__jump(elements, default) ==
    IF ~check_selector_elements(elements) \/ default < 0 \/ default >= Len(elements)
    THEN [raised |-> "AssertionError", index |-> 0, default_value |-> 0, log |-> <<>>]
    ELSE [raised |-> "", index |-> default, default_value |-> default, log |-> <<>>]

\* Selector.__init__: the assertions, then `default` moves to the right from
\* index 0, then set_default_value(default).
__init__(elements, default) ==
    IF ~check_selector_elements(elements) \/ default < 0 \/ default >= Len(elements)
    THEN [raised |-> "AssertionError", index |-> 0, default_value |-> 0, log |-> <<>>]
    ELSE LET d == default % Len(elements)
             o == RightTimes(elements, 0, <<>>, d)
         IN [raised |-> "", index |-> o.index, default_value |-> d, log |-> o.log]

(* --------------------------- update(events) --------------------------- *)

check_key_pressed_valid(e) == e.valid

\* pygame.Rect.collidepoint
collidepoint(r, p) ==
    /\ r[1] <= p[1] /\ p[1] < r[1] + r[3]
    /\ r[2] <= p[2] /\ p[2] < r[2] + r[4]

\* Mutant of Click: the left half of the value zone excludes its midpoint.
Click_strict_half(e, i) ==
    LET finger == _touchscreen_enabled /\ e.type = "FINGERUP" /\ _menu # <<>>
        no_pos == e.pos = <<>>
        event_pos == IF finger
                     THEN <<(e.x * _menu[1]) \div 4, (e.y * _menu[2]) \div 4>>
                     ELSE e.pos
    IN  IF ~finger /\ no_pos THEN Out(i, <<>>, FALSE, "AttributeError")
        ELSE IF ~collidepoint(_rect, event_pos) THEN Out(i, <<>>, FALSE, "")
        ELSE IF no_pos THEN Out(i, <<>>, FALSE, "AttributeError")
        ELSE LET mousex == e.pos[1]
                 topleft == _rect[1]
                 topright == _rect[1] + _rect[3]
                 dist == mousex - (topleft + _title_size)
                 width == topright - topleft - _title_size
             IN  IF ~(dist > 0) THEN Out(i, <<>>, FALSE, "")
                 ELSE IF width = 0 THEN Out(i, <<>>, FALSE, "ZeroDivisionError")
                 ELSE LET left == IF width > 0 THEN 2 * dist < width ELSE 2 * dist > width
                          o == IF left THEN _left(readonly, _elements, i)
                               ELSE _right(readonly, _elements, i)
                      IN Out(o.index, o.log, TRUE, "")

\* The click branch of update(), reached with an enabled pointer or touch
\* release.  Reading event.pos on an event without it is AttributeError.
Click(e, i) ==
    LET finger == _touchscreen_enabled /\ e.type = "FINGERUP" /\ _menu # <<>>
        no_pos == e.pos = <<>>
        event_pos == IF finger
                     THEN <<(e.x * _menu[1]) \div 4, (e.y * _menu[2]) \div 4>>
                     ELSE e.pos
    IN  IF ~finger /\ no_pos THEN Out(i, <<>>, FALSE, "AttributeError")
        ELSE IF ~collidepoint(_rect, event_pos) THEN Out(i, <<>>, FALSE, "")
        ELSE IF no_pos THEN Out(i, <<>>, FALSE, "AttributeError")
        ELSE LET mousex == e.pos[1]
                 topleft == _rect[1]
                 topright == _rect[1] + _rect[3]
                 dist == mousex - (topleft + _title_size)
                 width == topright - topleft - _title_size
             IN  IF ~(dist > 0) THEN Out(i, <<>>, FALSE, "")
                 ELSE IF width = 0 THEN Out(i, <<>>, FALSE, "ZeroDivisionError")
                 ELSE LET left == IF width > 0 THEN 2 * dist <= width ELSE 2 * dist >= width
                          o == IF left THEN _left(readonly, _elements, i)
                               ELSE _right(readonly, _elements, i)
                      IN Out(o.index, o.log, TRUE, "")

\* Mutant of HandleEvent: key-down events count with the keyboard disabled.
HandleEvent_any_keyboard(e, i) ==
    IF e.type = "KEYDOWN" /\ ~check_key_pressed_valid(e) THEN Out(i, <<>>, FALSE, "")
    ELSE
    LET keydown == e.type = "KEYDOWN"
        joy_hatmotion == _joystick_enabled /\ e.type = "JOYHATMOTION"
        joy_axismotion == _joystick_enabled /\ e.type = "JOYAXISMOTION"
        joy_button_down == _joystick_enabled /\ e.type = "JOYBUTTONDOWN"
    IN  IF \/ keydown /\ e.key = KEY_LEFT
           \/ joy_hatmotion /\ e.hat = JOY_LEFT
           \/ joy_axismotion /\ e.axis = JOY_AXIS_X /\ e.value < JOY_DEADZONE
        THEN LET o == _left(readonly, _elements, i) IN Out(o.index, o.log, TRUE, "")
        ELSE IF \/ keydown /\ e.key = KEY_RIGHT
                \/ joy_hatmotion /\ e.hat = JOY_RIGHT
                \/ joy_axismotion /\ e.axis = JOY_AXIS_X /\ e.value > 0 - JOY_DEADZONE
        THEN LET o == _right(readonly, _elements, i) IN Out(o.index, o.log, TRUE, "")
        ELSE IF \/ keydown /\ e.key = KEY_APPLY
                \/ joy_button_down /\ e.button = JOY_BUTTON_SELECT
        THEN IF InRange(i, _elements)
             THEN Out(i, <<play_open_menu(i), apply(Payload(At(_elements, i)), i)>>, TRUE, "")
             ELSE Out(i, <<play_open_menu(i)>>, FALSE, "IndexError")
        ELSE IF \/ _mouse_enabled /\ e.type = "MOUSEBUTTONUP" /\ e.button \in {1, 2, 3}
                \/ _touchscreen_enabled /\ e.type = "FINGERUP"
        THEN Click(e, i)
        ELSE Out(i, <<>>, FALSE, "")

\* One iteration of the event loop of update(), met with index i.
HandleEvent(e, i) ==
    IF e.type = "KEYDOWN" /\ ~check_key_pressed_valid(e) THEN Out(i, <<>>, FALSE, "")
    ELSE
    LET keydown == _keyboard_enabled /\ e.type = "KEYDOWN"
        joy_hatmotion == _joystick_enabled /\ e.type = "JOYHATMOTION"
        joy_axismotion == _joystick_enabled /\ e.type = "JOYAXISMOTION"
        joy_button_down == _joystick_enabled /\ e.type = "JOYBUTTONDOWN"
    IN  IF \/ keydown /\ e.key = KEY_LEFT
           \/ joy_hatmotion /\ e.hat = JOY_LEFT
           \/ joy_axismotion /\ e.axis = JOY_AXIS_X /\ e.value < JOY_DEADZONE
        THEN LET o == _left(readonly, _elements, i) IN Out(o.index, o.log, TRUE, "")
        ELSE IF \/ keydown /\ e.key = KEY_RIGHT
                \/ joy_hatmotion /\ e.hat = JOY_RIGHT
                \/ joy_axismotion /\ e.axis = JOY_AXIS_X /\ e.value > 0 - JOY_DEADZONE
        THEN LET o == _right(readonly, _elements, i) IN Out(o.index, o.log, TRUE, "")
        ELSE IF \/ keydown /\ e.key = KEY_APPLY
                \/ joy_button_down /\ e.button = JOY_BUTTON_SELECT
        THEN IF InRange(i, _elements)
             THEN Out(i, <<play_open_menu(i), apply(Payload(At(_elements, i)), i)>>, TRUE, "")
             ELSE Out(i, <<play_open_menu(i)>>, FALSE, "IndexError")
        ELSE IF \/ _mouse_enabled /\ e.type = "MOUSEBUTTONUP" /\ e.button \in {1, 2, 3}
                \/ _touchscreen_enabled /\ e.type = "FINGERUP"
        THEN Click(e, i)
        ELSE Out(i, <<>>, FALSE, "")

\* Mutant of update_begin: the read-only test is missing.
update_begin_unguarded ==
    /\ pc = "idle"
    /\ pre' = Snapshot
    /\ arg' = NoArg
    /\ log' = <<>>
    /\ step' = NoStep
    /\ nev' = 0
    /\ updated' = FALSE
    /\ call' = Call("update", "", FALSE)
    /\ pc' = "update"
    /\ UNCHANGED <<widget, readonly, flags, layout, view, run>>

\* Entry of update(): a read-only widget returns False at once.
update_begin ==
    /\ pc = "idle"
    /\ pre' = Snapshot
    /\ arg' = NoArg
    /\ log' = <<>>
    /\ step' = NoStep
    /\ nev' = 0
    /\ updated' = FALSE
    /\ call' = Call("update", "", FALSE)
    /\ pc' = IF readonly THEN "returned" ELSE "update"
    /\ UNCHANGED <<widget, readonly, flags, layout, view, run>>

\* Mutant of update_event: every event of the batch is handled against the
\* index the batch started from.
update_event_from_start(ES) ==
    /\ pc = "update"
    /\ nev < MaxBatch
    /\ \E e \in ES :
        LET o == HandleEvent(e, pre.index)
        IN  /\ _index' = o.index
            /\ log' = log \o o.log
            /\ step' = [event |-> e, index |-> _index, loglen |-> Len(log), acted |-> o.acted]
            /\ nev' = nev + 1
            /\ updated' = (updated \/ o.acted)
            /\ IF o.raised = ""
               THEN UNCHANGED <<pc, call>>
               ELSE pc' = "returned" /\ call' = Call("update", o.raised, FALSE)
    /\ UNCHANGED <<_elements, _default_value, readonly, flags, layout, view, pre, arg, run>>

\* One `for event in events` iteration, on an event drawn from ES.
update_event(ES) ==
    /\ pc = "update"
    /\ nev < MaxBatch
    /\ \E e \in ES :
        LET o == HandleEvent(e, _index)
        IN  /\ _index' = o.index
            /\ log' = log \o o.log
            /\ step' = [event |-> e, index |-> _index, loglen |-> Len(log), acted |-> o.acted]
            /\ nev' = nev + 1
            /\ updated' = (updated \/ o.acted)
            /\ IF o.raised = ""
               THEN UNCHANGED <<pc, call>>
               ELSE pc' = "returned" /\ call' = Call("update", o.raised, FALSE)
    /\ UNCHANGED <<_elements, _default_value, readonly, flags, layout, view, pre, arg, run>>

\* The batch is exhausted: the update-callbacks hook, then `return updated`.
update_end ==
    /\ pc = "update"
    /\ log' = IF updated THEN Append(log, apply_update_callbacks(_index)) ELSE log
    /\ call' = Call("update", "", updated)
    /\ pc' = "returned"
    /\ UNCHANGED <<widget, readonly, flags, layout, view, loop, pre, arg, run>>

(* ----------------------------- operations ----------------------------- *)

\* What every call other than update() leaves of the loop's locals.
Called(op, raised, ret, a, lg) ==
    /\ pc = "idle"
    /\ pc' = "returned"
    /\ call' = Call(op, raised, ret)
    /\ pre' = Snapshot
    /\ arg' = a
    /\ log' = lg
    /\ UNCHANGED loop

\* Selector(title, elements, default=..., style=...) on a list drawn from LS
\* with a style of SS, after which the menu that receives the widget
\* configures it with one of CS.
\* A constructor that raises produces no selector.
Construct(LS, CS, SS) ==
    /\ pc = "new"
    /\ \E elements \in LS, default \in Defaults, c \in CS, style \in SS :
        LET o == __init__(elements, default)
        IN  /\ arg' = [elements |-> elements, default |-> default]
            /\ call' = Call("__init__", o.raised, "None")
            /\ log' = o.log
            /\ IF o.raised # ""
               THEN /\ pc' = "failed"
                    /\ UNCHANGED <<widget, flags, layout, view>>
               ELSE /\ pc' = "returned"
                    /\ _elements' = elements
                    /\ _index' = o.index
                    /\ _default_value' = o.default_value
                    /\ _keyboard_enabled' = c.keyboard
                    /\ _joystick_enabled' = c.joystick
                    /\ _mouse_enabled' = c.mouse
                    /\ _touchscreen_enabled' = c.touchscreen
                    /\ _menu' = c.menu
                    /\ _title_size' = c.title_size
                    /\ _rect' = c.rect
                    /\ _style' = style
                    /\ UNCHANGED <<_selected, _visible, _last_render_hash, _surface>>
    /\ UNCHANGED <<readonly, loop, pre, run>>

\* Selector.reset_value
reset_value ==
    /\ Called("reset_value", "", "self", NoArg, <<>>)
    /\ _index' = _default_value
    /\ UNCHANGED <<_elements, _default_value, readonly, flags, layout, view, run>>

\* Selector.get_value: elements[index] of an index out of range is IndexError.
get_value ==
    /\ IF InRange(_index, _elements)
       THEN Called("get_value", "", <<At(_elements, _index), _index>>, NoArg, <<>>)
       ELSE Called("get_value", "IndexError", <<>>, NoArg, <<>>)
    /\ UNCHANGED <<widget, readonly, flags, layout, view, run>>

\* Mutant of set_value_index: a text selects the last row it labels.
set_value_last_match(elements, item) ==
    IF item.t = "str"
    THEN IF \E k \in 1..Len(elements) : elements[k][1] = item.s
         THEN (CHOOSE k \in 1..Len(elements) :
                    /\ elements[k][1] = item.s
                    /\ \A j \in (k + 1)..Len(elements) : elements[j][1] # item.s) - 1
         ELSE 0 - 1
    ELSE IF 0 <= item.n /\ item.n < Len(elements) THEN item.n ELSE 0 - 2

\* Selector.set_value as a function of the list: the new index, -1 for the
\* ValueError of a text no label equals, -2 for the failed range assertion.
set_value_index(elements, item) ==
    IF item.t = "str"
    THEN IF \E k \in 1..Len(elements) : elements[k][1] = item.s
         THEN LET k == CHOOSE k \in 1..Len(elements) :
                            /\ elements[k][1] = item.s
                            /\ \A j \in 1..(k - 1) : elements[j][1] # item.s
              IN ListIndex(elements, elements[k])
         ELSE 0 - 1
    ELSE IF 0 <= item.n /\ item.n < Len(elements) THEN item.n ELSE 0 - 2

\* Selector.set_value
set_value ==
    \E item \in Items :
        LET i == set_value_index(_elements, item)
        IN  /\ Called("set_value",
                      IF i = 0 - 1 THEN "ValueError" ELSE IF i = 0 - 2 THEN "AssertionError" ELSE "",
                      "None", item, <<>>)
            /\ _index' = IF i >= 0 THEN i ELSE _index
            /\ UNCHANGED <<_elements, _default_value, readonly, flags, layout, view, run>>

\* Mutant of update_elements_result: the selected row is not looked up.
update_elements_keep_position(old, i, d, elements) ==
    IF ~check_selector_elements(elements)
    THEN [raised |-> "AssertionError", elements |-> old, index |-> i, default_value |-> d]
    ELSE IF ~InRange(i, old)
    THEN [raised |-> "IndexError", elements |-> old, index |-> i, default_value |-> d]
    ELSE IF i >= Len(elements)
    THEN [raised |-> "", elements |-> elements, index |-> 0, default_value |-> 0]
    ELSE [raised |-> "", elements |-> elements, index |-> i, default_value |-> d]

\* Mutant of update_elements_result: the list is stored before it is checked.
update_elements_store_first(old, i, d, elements) ==
    IF ~check_selector_elements(elements)
    THEN [raised |-> "AssertionError", elements |-> elements, index |-> i, default_value |-> d]
    ELSE IF ~InRange(i, old)
    THEN [raised |-> "IndexError", elements |-> old, index |-> i, default_value |-> d]
    ELSE LET found == ListIndex(elements, At(old, i))
         IN  IF found >= 0
             THEN [raised |-> "", elements |-> elements, index |-> found, default_value |-> d]
             ELSE IF i >= Len(elements)
             THEN [raised |-> "", elements |-> elements, index |-> 0, default_value |-> 0]
             ELSE [raised |-> "", elements |-> elements, index |-> i, default_value |-> d]

\* Mutant of update_elements_result: a selected row that is not found always
\* resets index and default.
update_elements_reset_unfound(old, i, d, elements) ==
    IF ~check_selector_elements(elements)
    THEN [raised |-> "AssertionError", elements |-> old, index |-> i, default_value |-> d]
    ELSE IF ~InRange(i, old)
    THEN [raised |-> "IndexError", elements |-> old, index |-> i, default_value |-> d]
    ELSE LET found == ListIndex(elements, At(old, i))
         IN  IF found >= 0
             THEN [raised |-> "", elements |-> elements, index |-> found, default_value |-> d]
             ELSE [raised |-> "", elements |-> elements, index |-> 0, default_value |-> 0]

\* Selector.update_elements as a function of the fields it reads: the new
\* fields, or the exception.
update_elements_result(old, i, d, elements) ==
    IF ~check_selector_elements(elements)
    THEN [raised |-> "AssertionError", elements |-> old, index |-> i, default_value |-> d]
    ELSE IF ~InRange(i, old)
    THEN [raised |-> "IndexError", elements |-> old, index |-> i, default_value |-> d]
    ELSE LET selected_element == At(old, i)
             found == ListIndex(elements, selected_element)
         IN  IF found >= 0
             THEN [raised |-> "", elements |-> elements, index |-> found, default_value |-> d]
             ELSE IF i >= Len(elements)
             THEN [raised |-> "", elements |-> elements, index |-> 0, default_value |-> 0]
             ELSE [raised |-> "", elements |-> elements, index |-> i, default_value |-> d]

\* Selector.update_elements on a list drawn from LS
update_elements(LS) ==
    \E elements \in LS :
        LET r == update_elements_result(_elements, _index, _default_value, elements)
        IN  /\ Called("update_elements", r.raised, "None", elements, <<>>)
            /\ _elements' = r.elements
            /\ _index' = r.index
            /\ _default_value' = r.default_value
            /\ UNCHANGED <<readonly, flags, layout, view, run>>

\* A direct call of Selector._left
move_left_do ==
    LET o == _left(readonly, _elements, _index)
    IN  /\ Called("_left", "", "None", NoArg, o.log)
        /\ _index' = o.index
        /\ UNCHANGED <<_elements, _default_value, readonly, flags, layout, view>>

\* A direct call of Selector._right
move_right_do ==
    LET o == _right(readonly, _elements, _index)
    IN  /\ Called("_right", "", "None", NoArg, o.log)
        /\ _index' = o.index
        /\ UNCHANGED <<_elements, _default_value, readonly, flags, layout, view>>

move_left == move_left_do /\ UNCHANGED run
move_right == move_right_do /\ UNCHANGED run

\* The host sets Widget.readonly.
set_readonly ==
    /\ pc = "idle"
    /\ readonly' \in BOOLEAN \ {readonly}
    /\ UNCHANGED <<widget, flags, layout, view, pc, loop, log, call, pre, arg, run>>

\* The host has seen the outcome of the call and goes on.
Resume ==
    /\ pc = "returned"
    /\ pc' = "idle"
    /\ call' = Call("", "", "None")
    /\ pre' = Snapshot
    /\ arg' = NoArg
    /\ log' = <<>>
    /\ step' = NoStep
    /\ nev' = 0
    /\ updated' = FALSE
    /\ UNCHANGED <<widget, readonly, flags, layout, view, run>>

(* --------------------------- ghost: move runs ------------------------- *)

\* The run after one more move in direction dir from index i of a list of n
\* rows: a run counts equal moves in a row, and starts anew once it is n long.
\* `from` is the index the latest move met; pdir and pfrom are the direction
\* of the move before it and the index that one met.
NextRun(dir, i, n) ==
    IF run.dir = dir /\ run.n < n
    THEN [run EXCEPT !.n = run.n + 1, !.from = i, !.pdir = run.dir, !.pfrom = run.from]
    ELSE [dir |-> dir, start |-> i, n |-> 1, from |-> i, pdir |-> run.dir, pfrom |-> run.from]

move_left_run == move_left_do /\ run' = NextRun("left", _index, Len(_elements))
move_right_run == move_right_do /\ run' = NextRun("right", _index, Len(_elements))

(* ------------------------------ rendering ----------------------------- *)

SELECTOR_STYLE_CLASSIC == "classic"
SELECTOR_STYLE_FANCY == "fancy"
Styles == {SELECTOR_STYLE_CLASSIC, SELECTOR_STYLE_FANCY}

\* The defaults of the fancy style.
_style_fancy_arrow_margin == <<5, 5, 0>>
_style_fancy_box_inflate == <<0, 0>>
_style_fancy_box_margin == 25

\* The title text, and the pieces of _sformat = '{0}< {1} >' around the label.
Title == "t"
_sformat(title, label) == <<title, "< ", label, " >">>

\* pygame.font.Font.size: the width of a text in the widget's font (the
\* title is as wide as _apply_font measured it) and the height of a line.
FontWidth(text, ts) ==
    IF text = Title THEN ts ELSE IF text = "a" THEN 1 ELSE IF text = "b" THEN 3 ELSE 2
FontHeight == 2
RECURSIVE StringWidth(_, _)
StringWidth(pieces, ts) ==
    IF pieces = <<>> THEN 0
    ELSE FontWidth(Head(pieces), ts) + StringWidth(Tail(pieces), ts)

\* Widget.get_font_color_status
get_font_color_status(ro, selected) ==
    IF ro THEN "readonly_color" ELSE IF selected THEN "selected_color" ELSE "font_color"

\* A surface is what determines its pixels, and its size.
Surface(style, text, color, w, h) ==
    [style |-> style, text |-> text, color |-> color, size |-> <<w, h>>]
NoSurface == Surface("", <<>>, "", 0, 0)
\* Widget._render_string
_render_string(pieces, color, ts) ==
    Surface("text", pieces, color, StringWidth(pieces, ts), FontHeight)

\* Widget._last_render_hash before the first render, and the hash of the
\* arguments of _render_hash_changed, taken to be free of collisions.
NoHash == <<>>
_hash_variables(args) == args
_render_hash_changed(args, last) == _hash_variables(args) # last

\* The surface _render builds in the two styles.
Rendered(style, label, color, ts) ==
    IF style = SELECTOR_STYLE_CLASSIC
    THEN LET string == _render_string(_sformat(Title, label), color, ts)
         IN Surface(style, string.text, color, string.size[1], string.size[2])
    ELSE LET title == _render_string(<<Title>>, color, ts)
             current == _render_string(<<label>>, color, ts)
             arrow_width == title.size[2]
         IN Surface(style, <<Title, label>>, color,
                    title.size[1] + 2 * _style_fancy_arrow_margin[1]
                        + 2 * _style_fancy_arrow_margin[2] + _style_fancy_box_margin
                        + current.size[1] + 2 * arrow_width
                        + _style_fancy_box_inflate[1] \div 2,
                    title.size[2] + _style_fancy_box_inflate[2])

\* What Selector._render leaves: get_value() fails on an index out of range;
\* an unchanged hash returns True at once; otherwise the surface is built and
\* the rectangle takes its size.
RenderOutcome ==
    IF ~InRange(_index, _elements)
    THEN [raised |-> "IndexError", ret |-> "None", hash |-> _last_render_hash,
          surface |-> _surface, rect |-> _rect]
    ELSE LET current_selected == At(_elements, _index)[1]
             args == <<current_selected, _selected, _visible, _index, readonly>>
         IN  IF ~_render_hash_changed(args, _last_render_hash)
             THEN [raised |-> "", ret |-> "True", hash |-> _last_render_hash,
                   surface |-> _surface, rect |-> _rect]
             ELSE LET color == get_font_color_status(readonly, _selected)
                      surface == Rendered(_style, current_selected, color, _title_size)
                  IN [raised |-> "", ret |-> "None", hash |-> _hash_variables(args),
                      surface |-> surface,
                      rect |-> <<_rect[1], _rect[2], surface.size[1], surface.size[2]>>]

\* A call of Selector._render; `arg` keeps the cache the call met.
_render ==
    LET o == RenderOutcome
    IN  /\ Called("_render", o.raised, o.ret,
                  [hash |-> _last_render_hash, surface |-> _surface, rect |-> _rect], <<>>)
        /\ _last_render_hash' = o.hash
        /\ _surface' = o.surface
        /\ _rect' = o.rect
        /\ UNCHANGED <<widget, readonly, flags, _menu, _title_size, run,
                       _style, _selected, _visible>>

\* The menu selects or unselects the widget.
set_selected ==
    /\ pc = "idle"
    /\ _selected' \in BOOLEAN \ {_selected}
    /\ UNCHANGED <<widget, readonly, flags, layout, pc, loop, log, call, pre, arg, run,
                   _style, _visible, _last_render_hash, _surface>>

\* The host hides or shows the widget.
set_visible ==
    /\ pc = "idle"
    /\ _visible' \in BOOLEAN \ {_visible}
    /\ UNCHANGED <<widget, readonly, flags, layout, pc, loop, log, call, pre, arg, run,
                   _style, _selected, _last_render_hash, _surface>>

(* --------------------------- specifications --------------------------- *)

\* Before construction: no selector yet.  The Widget base class starts a
\* widget writable.
Init ==
    /\ _elements = <<>>
    /\ _index = 0
    /\ _default_value = 0
    /\ readonly = FALSE
    /\ _keyboard_enabled = TRUE
    /\ _joystick_enabled = TRUE
    /\ _mouse_enabled = TRUE
    /\ _touchscreen_enabled = TRUE
    /\ _menu = <<>>
    /\ _title_size = 0
    /\ _rect = <<0, 0, 0, 0>>
    /\ pc = "new"
    /\ updated = FALSE
    /\ nev = 0
    /\ step = NoStep
    /\ log = <<>>
    /\ call = Call("", "", "None")
    /\ pre = [elements |-> <<>>, index |-> 0, default_value |-> 0]
    /\ arg = NoArg
    /\ run = NoRun
    /\ _style = SELECTOR_STYLE_CLASSIC
    /\ _selected = FALSE
    /\ _visible = TRUE
    /\ _last_render_hash = NoHash
    /\ _surface = NoSurface

StandardConfig == Config(TRUE, TRUE, TRUE, TRUE, Window, 2, Rect10)

\* Every operation, the element lists in depth: one configuration, few events.
Next ==
    \/ Construct(AllLists, {StandardConfig}, {SELECTOR_STYLE_CLASSIC})
    \/ reset_value
    \/ get_value
    \/ set_value
    \/ update_elements(AllLists)
    \/ move_left
    \/ move_right
    \/ set_readonly
    \/ update_begin
    \/ update_event(FewEvents)
    \/ update_end
    \/ Resume

Spec == Init /\ [][Next]_vars

\* Every operation, the input side in depth: every configuration and event,
\* few element lists.
NextInput ==
    \/ Construct(FewLists, Configs, {SELECTOR_STYLE_CLASSIC})
    \/ reset_value
    \/ get_value
    \/ set_value
    \/ update_elements(FewLists)
    \/ move_left
    \/ move_right
    \/ set_readonly
    \/ update_begin
    \/ update_event(AllEvents)
    \/ update_end
    \/ Resume

SpecInput == Init /\ [][NextInput]_vars

\* Runs of moves on every constructed selector.
NextMoves ==
    \/ Construct(AllLists, {StandardConfig}, {SELECTOR_STYLE_CLASSIC})
    \/ move_left_run
    \/ move_right_run
    \/ Resume

SpecMoves == Init /\ [][NextMoves]_vars

\* Rendering between the operations that change what is rendered.
NextRender ==
    \/ Construct(FewLists, {StandardConfig}, Styles)
    \/ _render
    \/ move_left
    \/ move_right
    \/ reset_value
    \/ update_elements(FewLists)
    \/ set_readonly
    \/ set_selected
    \/ set_visible
    \/ Resume

SpecRender == Init /\ [][NextRender]_vars

(* ------------------------------- claims ------------------------------- *)

Returned(op) == pc = "returned" /\ call.op = op
Succeeded(op) == Returned(op) /\ call.raised = ""
Unchanged == _elements = pre.elements /\ _index = pre.index /\ _default_value = pre.default_value
Count(kind) == Cardinality({k \in 1..Len(log) : log[k].k = kind})
\* The smallest 0-based position of a row labelled s.
FirstLabelled(l, s) == (CHOOSE k \in 1..Len(l) : l[k][1] = s /\ \A j \in 1..(k - 1) : l[j][1] # s) - 1
Labelled(l, s) == \E k \in 1..Len(l) : l[k][1] = s
Contains(l, x) == \E k \in 1..Len(l) : l[k] = x

\* C1: once a selector exists, 0 <= index < len(elements) in every state,
\* and get_value() never fails.
C1_IndexInRange ==
    pc \in {"idle", "update", "returned"} =>
        /\ InRange(_index, _elements)
        /\ Returned("get_value") => call.raised = "" /\ call.ret = <<At(_elements, _index), _index>>

\* C2: update() on a read-only widget returns False, consumes no event,
\* leaves the index alone and invokes no callback, sound cue or hook.
C2_ReadonlyUpdateInert ==
    /\ pc = "update" => ~readonly
    /\ (Returned("update") /\ readonly) =>
        /\ call.raised = "" /\ call.ret = FALSE
        /\ nev = 0
        /\ Unchanged
        /\ log = <<>>

C2_Witness == Returned("update") /\ readonly /\ call.ret = FALSE /\ Len(_elements) > 1

C4_LengthChangeSelectsFirst ==
    (Succeeded("update_elements") /\ Len(_elements) # Len(pre.elements)) => _index = 0

\* C5: an X-axis joystick event on an enabled joystick moves left only below
\* -deadzone, moves right only above +deadzone, and does nothing in between.
C5_AxisDeadzone ==
    (/\ pc \in {"update", "returned"} /\ call.op = "update" /\ call.raised = ""
     /\ _joystick_enabled /\ ~readonly
     /\ step.event.type = "JOYAXISMOTION" /\ step.event.axis = JOY_AXIS_X
     /\ InRange(step.index, _elements)) =>
        LET v == step.event.value
            n == Len(_elements)
            logged == Len(log) - (IF Count("hook") > 0 THEN 1 ELSE 0) - step.loglen
        IN  /\ v < 0 - JOY_DEADZONE => _index = (step.index - 1) % n /\ step.acted
            /\ v > JOY_DEADZONE => _index = (step.index + 1) % n /\ step.acted
            /\ (0 - JOY_DEADZONE <= v /\ v <= JOY_DEADZONE) =>
                ~step.acted /\ _index = step.index /\ logged = 0

\* C6: a call of update() invokes the update-callbacks hook exactly once,
\* after everything else, when an event of the batch produced an action,
\* and never otherwise.
C6_HookOncePerActingBatch ==
    Returned("update") =>
        IF \E k \in 1..Len(log) : log[k].k \in {"change", "apply"}
        THEN Count("hook") = 1 /\ log[Len(log)].k = "hook"
        ELSE Count("hook") = 0

\* C7: set_value(text) selects the smallest position whose label equals the
\* text, set_value(int in range) selects that position; elements and
\* default_index stay as they were and no callback is invoked.
C7_SetValueSelects ==
    Returned("set_value") =>
        /\ (arg.t = "str" /\ Labelled(pre.elements, arg.s)) =>
            call.raised = "" /\ _index = FirstLabelled(pre.elements, arg.s)
        /\ (arg.t = "int" /\ InRange(arg.n, pre.elements)) =>
            call.raised = "" /\ _index = arg.n
        /\ _elements = pre.elements
        /\ _default_value = pre.default_value
        /\ log = <<>>

C7_Witness ==
    /\ Succeeded("set_value")
    /\ arg.t = "str"
    /\ _index # pre.index
    /\ \E j \in (_index + 1)..(Len(_elements) - 1) : At(_elements, j)[1] = arg.s

\* C8: set_value with a text no label equals raises the not-found error,
\* set_value with an integer out of range raises the range error,
\* update_elements with an invalid list raises the validation error; each
\* failed call leaves index, elements and default_index as they were.
C8_FailureLeavesState ==
    /\ (Returned("set_value") /\ arg.t = "str" /\ ~Labelled(pre.elements, arg.s)) =>
        call.raised = "ValueError"
    /\ (Returned("set_value") /\ arg.t = "int" /\ ~InRange(arg.n, pre.elements)) =>
        call.raised = "AssertionError"
    /\ (Returned("update_elements") /\ ~check_selector_elements(arg)) =>
        call.raised = "AssertionError"
    /\ ((Returned("set_value") \/ Returned("update_elements")) /\ call.raised # "") =>
        Unchanged /\ log = <<>>

C8_Witness ==
    /\ Returned("update_elements")
    /\ call.raised = "AssertionError"
    /\ Len(arg) > 0 /\ arg # pre.elements
    /\ _elements = pre.elements

\* C9: a constructor call with a valid list of n rows and 0 <= k < n makes k
\* right moves from index 0: k change callbacks, the j-th with the payload
\* of row j, each followed by the navigation cue; it ends with index = k and
\* default_index = k.  With any other argument it fails and no selector exists.
C9_Construction ==
    /\ Returned("__init__") =>
        LET n == Len(arg.elements)
            k == arg.default
        IN  /\ call.raised = ""
            /\ check_selector_elements(arg.elements) /\ 0 <= k /\ k < n
            /\ _elements = arg.elements /\ _index = k /\ _default_value = k
            /\ Len(log) = 2 * k /\ Count("change") = k
            /\ \A j \in 1..k :
                /\ log[2 * j - 1] = change(Payload(At(arg.elements, j)), j)
                /\ log[2 * j] = play_key_add(j)
    /\ pc = "failed" =>
        /\ call.op = "__init__" /\ call.raised = "AssertionError"
        /\ \/ ~check_selector_elements(arg.elements)
           \/ arg.default < 0
           \/ arg.default >= Len(arg.elements)
        /\ _elements = <<>> /\ log = <<>>

C9_Witness ==
    /\ Returned("__init__")
    /\ arg.default = 2 /\ Len(arg.elements) = 3
    /\ Count("change") = 2

\* C10: on a writable widget, len(elements) moves to the right in a row, or
\* as many to the left, bring the index back to where the run started.
C10_FullTurn ==
    (pc \in {"idle", "returned"} /\ ~readonly /\ run.dir # "" /\ run.n = Len(_elements)) =>
        _index = run.start

C10_Witness ==
    /\ Returned("_right")
    /\ run.dir = "right" /\ run.n = 3 /\ Len(_elements) = 3
    /\ _index = run.start /\ _index = 1

\* C11: on a writable widget a move to the left followed at once by a move
\* to the right, or a move to the right followed at once by a move to the
\* left, ends on the index the first of the two met; so at index 0, at index
\* len - 1 and on a list of one row.
C11_InversePair ==
    (pc \in {"idle", "returned"} /\ ~readonly /\ run.pdir # "" /\ run.pdir # run.dir) =>
        /\ _index = run.pfrom
        /\ run.from = (IF run.pdir = "left" THEN run.pfrom - 1 ELSE run.pfrom + 1) % Len(_elements)

C11_Witness ==
    /\ Returned("_left")
    /\ run.pdir = "right" /\ run.dir = "left"
    /\ Len(_elements) = 3 /\ run.pfrom = 2 /\ run.from = 0 /\ _index = 2

\* The entries the last event of the batch put on the log.
StepLogged == Len(log) - (IF Count("hook") > 0 THEN 1 ELSE 0) - step.loglen
\* The event comes from an input source that is disabled.
Disabled(e) ==
    \/ e.type = "KEYDOWN" /\ ~_keyboard_enabled
    \/ e.type \in {"JOYHATMOTION", "JOYAXISMOTION", "JOYBUTTONDOWN"} /\ ~_joystick_enabled
    \/ e.type = "MOUSEBUTTONUP" /\ ~_mouse_enabled
    \/ e.type = "FINGERUP" /\ ~_touchscreen_enabled

\* C12: an event of update() that comes from a disabled input source does
\* nothing, whatever it would otherwise match: the index stays, nothing is
\* called or played, the event does not count as an update and update() does
\* not fail on it.  A key or hat event of an enabled source acts, whatever
\* the other sources are set to.
C12_DisabledSourceInert ==
    (pc \in {"update", "returned"} /\ call.op = "update" /\ nev > 0) =>
        LET e == step.event
        IN  /\ Disabled(e) =>
                call.raised = "" /\ ~step.acted /\ _index = step.index /\ StepLogged = 0
            /\ (/\ _keyboard_enabled /\ e.type = "KEYDOWN" /\ e.valid
                 /\ e.key \in {KEY_LEFT, KEY_RIGHT}) => step.acted /\ StepLogged = 2
            /\ (_joystick_enabled /\ e.type = "JOYHATMOTION" /\ e.hat \in {JOY_LEFT, JOY_RIGHT}) =>
                step.acted /\ StepLogged = 2

\* A hat event of the enabled joystick has moved the selection, and a valid
\* KEY_LEFT of the disabled keyboard, next in the batch, has done nothing.
C12_Witness ==
    /\ pc = "update" /\ nev = 2
    /\ ~_keyboard_enabled /\ _joystick_enabled
    /\ step.event = KeyDown(KEY_LEFT, TRUE)
    /\ ~step.acted /\ _index = step.index
    /\ updated /\ Len(log) = 2 /\ log[1].k = "change" /\ step.loglen = 2
    /\ _index # pre.index

\* C13: a release of button 1, 2 or 3 of the enabled mouse inside the real
\* rectangle, with d = x - (rect.left + title_size): d <= 0 does nothing and
\* is no update; d > 0 with d / (rect.width - title_size) <= 0.5 is exactly
\* one move to the left; any other d > 0 is exactly one move to the right.
\* The divisor is positive whenever d > 0, so update() does not fail here.
C13_ClickZones ==
    (/\ pc \in {"update", "returned"} /\ call.op = "update" /\ nev > 0
     /\ _mouse_enabled /\ step.event.type = "MOUSEBUTTONUP"
     /\ step.event.button \in {1, 2, 3}
     /\ collidepoint(_rect, step.event.pos)) =>
        LET d == step.event.pos[1] - (_rect[1] + _title_size)
            w == _rect[3] - _title_size
            n == Len(_elements)
            moved(j) == /\ step.acted /\ _index = j /\ StepLogged = 2
                        /\ log[step.loglen + 1] = change(Payload(At(_elements, j)), j)
                        /\ log[step.loglen + 2] = play_key_add(j)
        IN  /\ call.raised = ""
            /\ d <= 0 => ~step.acted /\ _index = step.index /\ StepLogged = 0
            /\ d > 0 => w > 0
            /\ (d > 0 /\ 2 * d <= w) => moved((step.index - 1) % n)
            /\ (d > 0 /\ 2 * d > w) => moved((step.index + 1) % n)

\* A release on the midpoint of the value zone (x = 6 of 2..10) has moved the
\* selection of a three-row list one row to the left.
C13_Witness ==
    /\ pc = "update" /\ nev = 1
    /\ step.event = MouseUp(1, <<6, 1>>) /\ _mouse_enabled
    /\ _rect = Rect10 /\ _title_size = 2
    /\ Len(_elements) = 3 /\ step.index = 0 /\ _index = 2
    /\ Count("change") = 1

\* The event is a CONFIRM of an enabled source.
IsConfirm(e) ==
    \/ _keyboard_enabled /\ e.type = "KEYDOWN" /\ e.valid /\ e.key = KEY_APPLY
    \/ _joystick_enabled /\ e.type = "JOYBUTTONDOWN" /\ e.button = JOY_BUTTON_SELECT

\* C14: a CONFIRM event of update() plays the confirm sound cue, invokes the
\* apply callback once with the fields after the label of the row at the
\* index, counts as an update, invokes no change callback and leaves index,
\* elements and default_index as they were.
C14_ConfirmApplies ==
    (pc \in {"update", "returned"} /\ call.op = "update" /\ nev > 0 /\ IsConfirm(step.event)) =>
        /\ call.raised = ""
        /\ step.acted /\ updated
        /\ _index = step.index
        /\ _elements = pre.elements /\ _default_value = pre.default_value
        /\ StepLogged = 2
        /\ log[step.loglen + 1] = play_open_menu(_index)
        /\ log[step.loglen + 2] = apply(Payload(At(_elements, _index)), _index)

\* The five values _render hashes, in the current state.
CurrentHash == <<At(_elements, _index)[1], _selected, _visible, _index, readonly>>

\* C15: a call of _render that meets the five hashed values (label of the
\* selected row, selected, visible, index, readonly) as the last render left
\* them is skipped: it returns True and leaves the surface and the rectangle
\* alone.  A call that meets a change in any of them builds the surface anew
\* and gives the rectangle its size.
C15_RenderChangeDetection ==
    Returned("_render") =>
        /\ call.raised = ""
        /\ _last_render_hash = CurrentHash
        /\ IF arg.hash = CurrentHash
           THEN call.ret = "True" /\ _surface = arg.surface /\ _rect = arg.rect
           ELSE /\ call.ret = "None"
                /\ _surface = Rendered(_style, At(_elements, _index)[1],
                                       get_font_color_status(readonly, _selected), _title_size)
                /\ _rect = <<arg.rect[1], arg.rect[2], _surface.size[1], _surface.size[2]>>

\* C16: a move on a writable widget sets the index first, then invokes the
\* change callback once, with the fields after the label of the row at the
\* new index and with the new index in place, then plays the navigation
\* sound cue; so for direct moves and for moves that update() makes, and on
\* a list of one row.
C16_MoveOrder ==
    /\ ((Returned("_left") \/ Returned("_right")) /\ ~readonly) =>
        LET n == Len(_elements)
            j == (IF call.op = "_left" THEN pre.index - 1 ELSE pre.index + 1) % n
        IN  /\ _index = j
            /\ log = <<change(Payload(At(_elements, j)), j), play_key_add(j)>>
    /\ (/\ pc \in {"update", "returned"} /\ call.op = "update" /\ nev > 0
        /\ step.event \in {KeyDown(KEY_LEFT, TRUE), KeyDown(KEY_RIGHT, TRUE)}) =>
        LET n == Len(_elements)
            j == (IF step.event.key = KEY_LEFT THEN step.index - 1 ELSE step.index + 1) % n
        IN  /\ _index = j
            /\ StepLogged = 2
            /\ log[step.loglen + 1] = change(Payload(At(_elements, j)), j)
            /\ log[step.loglen + 2] = play_key_add(j)

C16_Witness ==
    /\ Returned("_right") /\ ~readonly
    /\ Len(_elements) = 3 /\ pre.index = 2 /\ _index = 0
    /\ _elements[1] # _elements[3]
    /\ log = <<change(Payload(_elements[1]), 0), play_key_add(0)>>

RECURSIVE MovesChain(_, _)
MovesChain(lg, i) ==
    IF lg = <<>> THEN TRUE
    ELSE LET h == Head(lg)
             n == Len(_elements)
         IN  IF h.k = "change"
             THEN /\ h.i \in {(i - 1) % n, (i + 1) % n}
                  /\ h.p = Payload(At(_elements, h.i))
                  /\ MovesChain(Tail(lg), h.i)
             ELSE h.i = i /\ MovesChain(Tail(lg), i)

\* R - L: the moves to the right less the moves to the left in lg.
RECURSIVE NetMoves(_, _)
NetMoves(lg, i) ==
    IF lg = <<>> THEN 0
    ELSE LET h == Head(lg)
         IN  IF h.k = "change"
             THEN (IF h.i = (i + 1) % Len(_elements) THEN 1 ELSE 0 - 1) + NetMoves(Tail(lg), h.i)
             ELSE NetMoves(Tail(lg), i)

\* The callbacks the last event of the batch invoked.
StepCallbacks ==
    Cardinality({k \in (step.loglen + 1)..(step.loglen + StepLogged) : log[k].k \in {"change", "apply"}})

\* C18: update() handles the events of the batch one after the other, each
\* against the index the one before left; an event invokes at most one
\* callback and moves the index by at most one step.  With L moves to the
\* left and R to the right, the index ends at (i0 + R - L) mod n, the change
\* callback has run once per move, and its k-th call carries the payload of
\* the row at the index after the k-th move.
C18_BatchInOrder ==
    (pc \in {"update", "returned"} /\ call.op = "update") =>
        LET n == Len(_elements)
        IN  /\ MovesChain(log, pre.index)
            /\ Count("change") + Count("apply") <= nev
            /\ nev > 0 => StepCallbacks <= 1
            /\ Count("change") = 0 => _index = pre.index
            /\ (Count("change") > 0 \/ InRange(pre.index, _elements)) =>
                _index = (pre.index + NetMoves(log, pre.index)) % n

\* Two moves to the left in one batch, from index 0 of three rows.
C18_Witness ==
    /\ pc = "update" /\ nev = 2
    /\ Len(_elements) = 3 /\ pre.index = 0 /\ _index = 1
    /\ Count("change") = 2 /\ log[1].i = 2 /\ log[3].i = 1
    /\ NetMoves(log, pre.index) = 0 - 2
    /\ log[1].p # log[3].p

\* C19: update() returns True exactly when an event of the batch invoked a
\* change or an apply callback; a batch whose events are all ignored returns
\* False, leaves the index alone and invokes no callback and no hook.
C19_ReturnsWhetherActed ==
    Returned("update") =>
        /\ call.raised = ""
        /\ call.ret = (Count("change") + Count("apply") > 0)
        /\ ~call.ret => _index = pre.index /\ log = <<>>

\* C20: a touch release of the enabled touchscreen on a widget attached to a
\* menu is decided by one point, the normalized touch coordinate scaled by
\* the window size: that point is tested against the real rectangle, and
\* its x alone tells the title zone, the left half and the right half apart.
C20_TouchOneCoordinate ==
    (/\ pc \in {"update", "returned"} /\ call.op = "update" /\ nev > 0
     /\ _touchscreen_enabled /\ step.event.type = "FINGERUP" /\ _menu # <<>>) =>
        LET e == step.event
            p == <<(e.x * _menu[1]) \div 4, (e.y * _menu[2]) \div 4>>
            d == p[1] - (_rect[1] + _title_size)
            w == _rect[3] - _title_size
            n == Len(_elements)
        IN  /\ call.raised = ""
            /\ (~collidepoint(_rect, p) \/ d <= 0) => ~step.acted /\ _index = step.index
            /\ (collidepoint(_rect, p) /\ d > 0 /\ 2 * d <= w) =>
                step.acted /\ _index = (step.index - 1) % n
            /\ (collidepoint(_rect, p) /\ d > 0 /\ 2 * d > w) =>
                step.acted /\ _index = (step.index + 1) % n

\* C21: once a selector exists, 0 <= default_index < len(elements) in every
\* state, and reset_value() leaves an index in range of the list, also after
\* update_elements has stored a shorter list.
C21_DefaultInRange ==
    pc \in {"idle", "update", "returned"} =>
        /\ InRange(_default_value, _elements)
        /\ Returned("reset_value") => InRange(_index, _elements)

====
